---- MODULE Spec2Model ----
(***************************************************************************)
(* State-machine model of the todo REST service (todo-api).                *)
(*                                                                         *)
(* Every HTTP request runs AuthMiddleware and then one of the four         *)
(* handlers GetTodos, CreateTodo, UpdateTodo, DeleteTodo.  gin serves each *)
(* request on its own goroutine, so requests interleave; the only shared   *)
(* state is the document collection, and each persistence call is atomic   *)
(* on it.  GetTodos, CreateTodo and DeleteTodo make one persistence call,  *)
(* so each is one step, taken at the moment of that call; what the handler *)
(* computed before the call (its readings of the clock) may be older than  *)
(* the call.  UpdateTodo makes two calls, UpdateOne and FindOne, and is    *)
(* two steps.                                                              *)
(*                                                                         *)
(* Spec serves the requests one after another; ConcSpec lets other         *)
(* requests run between the two steps of an UpdateTodo; FailSpec also lets *)
(* persistence calls return an error.                                      *)
(*                                                                         *)
(* Optional values (a missing cookie, a nil pointer of UpdateTodoRequest,  *)
(* an absent JSON member) are sequences of length 0 or 1.                  *)
(* Timestamps are clock readings at the resolution the store keeps.        *)
(***************************************************************************)
EXTENDS Integers, Sequences, FiniteSets, TLC

\* ---------------------------------------------------------------- bounds
MaxClock == 1      \* clock readings 0..MaxClock

\* UpdateTodo requests that can be between their two persistence calls.
Slots == {"u1", "u2"}

\* ---------------------------------------------------------------- values
None == <<>>
Some(v) == <<v>>
OptOf(S) == {None} \cup {Some(v) : v \in S}

\* uuid.New().String(): the n-th token generated; all distinct, none empty.
UUIDs == <<"uuid-1", "uuid-2">>

\* The ObjectIDs the driver generates, in order; all distinct, none zero.
ObjectIDs == <<"oid-1", "oid-2">>

\* primitive.NilObjectID
NilObjectID == "000000000000000000000000"

Titles == {"", "a"}
Descriptions == {"x"}

\* A value a client may put in a "user_id" member of a body.
BodyUserIDs == {UUIDs[1]}

\* A request body: valid = it deserializes as a JSON object whose members
\* have the expected types; each member present or absent.  user_id and (for
\* a create) completed are members the request structs do not declare.
NoBody ==
    [valid |-> FALSE, title |-> None, description |-> None,
     completed |-> None, user_id |-> None]

\* Bodies sent to POST /todos.
CreateBodies ==
    {NoBody} \cup
    { b \in [ valid : {TRUE}, title : OptOf(Titles), description : OptOf(Descriptions),
               completed : OptOf({TRUE}), user_id : OptOf(BodyUserIDs) ] :
        (b.completed = None) <=> (b.user_id = None) }

\* Bodies sent to PUT /todos/:id.
UpdateBodies ==
    {NoBody} \cup
    [ valid : {TRUE}, title : OptOf(Titles), description : OptOf(Descriptions),
      completed : OptOf({TRUE}), user_id : {None} ]

\* The :id path parameter: 24 hex digits naming an ObjectID, or anything else.
NoParam == [hex |-> FALSE, id |-> NilObjectID]

PathParams ==
    {NoParam} \cup { [hex |-> TRUE, id |-> ObjectIDs[i]] : i \in 1..Len(ObjectIDs) }

VARIABLES
    collection,    \* the documents of the todos collection
    nextObjectID,  \* index in ObjectIDs of the next one the driver generates
    minted,        \* how many tokens uuid.New() has generated
    clock,         \* time.Now()
    pending,       \* per slot: an UpdateTodo between UpdateOne and FindOne
    resp,          \* the request just answered, with its response, until it is sent
    fresh,         \* history: ObjectID -> the todo its create inserted, for the
                   \* todos no update or delete has matched since
    creator,       \* history: ObjectID -> the identity its create ran under
    deleted        \* history: ObjectIDs a DeleteOne has removed

vars == <<collection, nextObjectID, minted, clock, pending, resp, fresh, creator, deleted>>

\* ----------------------------------------------------------- models.Todo
Todo(id, user_id, title, description, completed, created_at, updated_at) ==
    [id |-> id, user_id |-> user_id, title |-> title, description |-> description,
     completed |-> completed, created_at |-> created_at, updated_at |-> updated_at]

\* ------------------------------------------------------------- requests
\* A request and what the server has made of it so far.  over is history:
\* the members that other updates of the same todo have written between this
\* request's UpdateOne and its FindOne.  failed: whether a persistence call
\* of the request returned an error, and if so whether the store had not
\* ("before") or had ("after") applied the operation when it did.
NoReq ==
    [method |-> "NONE", cookie |-> None, param |-> NoParam, body |-> NoBody,
     user_id |-> "", setCookie |-> None, objectID |-> NilObjectID, now |-> 0, set |-> None,
     status |-> 0, todos |-> {}, calls |-> 0, over |-> {}, failed |-> "no"]

Init ==
    /\ collection = {}
    /\ nextObjectID = 1
    /\ minted = 0
    /\ clock = 0
    /\ pending = [s \in Slots |-> NoReq]
    /\ resp = NoReq
    /\ fresh = <<>>
    /\ creator = <<>>
    /\ deleted = {}

\* Cookie headers a client can send: none, an empty value, or a token the
\* server has handed out (tokens cannot be guessed before they exist).
CookieInputs == {None, Some("")} \cup {Some(UUIDs[i]) : i \in 1..minted}

\* ------------------------------------------------------- AuthMiddleware
\* Mutant: only a missing cookie gets a token; an empty value is taken as is.
AuthMiddlewareEmptyAccepted(cookie, n) ==
    IF cookie = None
    THEN [user_id |-> Some(UUIDs[n + 1]), setCookie |-> Some(UUIDs[n + 1]), minted |-> n + 1]
    ELSE [user_id |-> Some(cookie[1]), setCookie |-> None, minted |-> n]

\* Mutant: c.Set is inside the branch that generates a token, so a request
\* that presents a cookie reaches its handler without an identity.
AuthMiddlewareSetOnlyNew(cookie, n) ==
    IF cookie = None \/ cookie[1] = ""
    THEN [user_id |-> Some(UUIDs[n + 1]), setCookie |-> Some(UUIDs[n + 1]), minted |-> n + 1]
    ELSE [user_id |-> None, setCookie |-> None, minted |-> n]

\* c.Cookie fails when the cookie is absent.  A missing or empty value gets a
\* new token and a Set-Cookie; the value is always put in the context.
AuthMiddleware(cookie, n) ==
    IF cookie = None \/ cookie[1] = ""
    THEN [user_id |-> Some(UUIDs[n + 1]), setCookie |-> Some(UUIDs[n + 1]), minted |-> n + 1]
    ELSE [user_id |-> Some(cookie[1]), setCookie |-> None, minted |-> n]

\* uuid.New() has a token left to generate.
CanServe(cookie) == (cookie = None \/ cookie[1] = "") => minted < Len(UUIDs)

\* m without its entry for i.
Without(m, i) == [j \in DOMAIN m \ {i} |-> m[j]]

\* ------------------------------------------------------------- binding
\* Mutant: the description member is not bound.
BindCreateNoDescription(body) ==
    [err |-> ~body.valid \/ body.title = None \/ body.title = Some(""),
     Title |-> IF body.title = None THEN "" ELSE body.title[1],
     Description |-> ""]

\* Mutant: the title is not required.
BindCreateNotRequired(body) ==
    [err |-> ~body.valid,
     Title |-> IF body.title = None THEN "" ELSE body.title[1],
     Description |-> IF body.description = None THEN "" ELSE body.description[1]]

\* ShouldBindJSON into CreateTodoRequest: Title is binding:"required", which
\* rejects the zero value, so an absent and an empty title both fail.
BindCreate(body) ==
    [err |-> ~body.valid \/ body.title = None \/ body.title = Some(""),
     Title |-> IF body.title = None THEN "" ELSE body.title[1],
     Description |-> IF body.description = None THEN "" ELSE body.description[1]]

\* ShouldBindJSON into UpdateTodoRequest: three optional pointers.
BindUpdate(body) ==
    [err |-> ~body.valid,
     Title |-> body.title, Description |-> body.description, Completed |-> body.completed]

\* primitive.ObjectIDFromHex
ObjectIDFromHex(param) == [err |-> ~param.hex, id |-> param.id]

\* c.JSON(status, ...) and return.
Respond(r, status, todos) == [r EXCEPT !.status = status, !.todos = todos]

\* One more persistence call made for request r.
Called(r) == [r EXCEPT !.calls = @ + 1]

\* The request as it leaves the middleware.
Arrive(method, cookie, param, body, mw) ==
    [NoReq EXCEPT !.method = method, !.cookie = cookie, !.param = param, !.body = body,
                  !.user_id = IF mw.user_id = None THEN "" ELSE mw.user_id[1],
                  !.setCookie = mw.setCookie]

\* ------------------------------------------------------------- filters
\* Mutant: the list is not filtered by owner.
ListFilterAll(d, r) == TRUE

\* Mutant: the update is filtered by _id alone.
UpdateFilterNoOwner(d, r) == d.id = r.objectID

\* Mutant: the delete is filtered by _id alone.
DeleteFilterNoOwner(d, r) == d.id = r.objectID

\* Mutant: the delete is filtered by owner alone.
DeleteFilterAnyId(d, r) == d.user_id = r.user_id

\* bson.M{"user_id": userID}
ListFilter(d, r) == d.user_id = r.user_id

\* bson.M{"_id": objectID, "user_id": userID} of UpdateTodo
UpdateFilter(d, r) == d.id = r.objectID /\ d.user_id = r.user_id

\* bson.M{"_id": objectID, "user_id": userID} of DeleteTodo
DeleteFilter(d, r) == d.id = r.objectID /\ d.user_id = r.user_id

\* ------------------------------------------------------ built documents
\* Mutant: the new todo is not given its owner.
NewTodoNoOwner(userID, req, t1, t2) ==
    [id |-> NilObjectID, user_id |-> "", title |-> req.Title, description |-> req.Description,
     completed |-> FALSE, created_at |-> t1, updated_at |-> t2]

\* Mutant: the title is a plain string, written even when the body has none.
UpdateDocTitleAlways(req, now) ==
    [updated_at |-> now,
     title |-> Some(IF req.Title = None THEN "" ELSE req.Title[1]),
     description |-> req.Description, completed |-> req.Completed]

\* Mutant: updated_at is the zero time instead of time.Now().
UpdateDocZeroTime(req, now) ==
    [updated_at |-> 0, title |-> req.Title, description |-> req.Description,
     completed |-> req.Completed]

\* Mutant: the completed member is left out of the $set document.
UpdateDocNoCompleted(req, now) ==
    [updated_at |-> now, title |-> req.Title, description |-> req.Description,
     completed |-> None]

\* The models.Todo CreateTodo builds: two readings of time.Now().
NewTodo(userID, req, t1, t2) == Todo(NilObjectID, userID, req.Title, req.Description, FALSE, t1, t2)

\* The $set document UpdateTodo builds: updated_at always, the rest if non-nil.
UpdateDoc(req, now) ==
    [updated_at |-> now, title |-> req.Title, description |-> req.Description,
     completed |-> req.Completed]

\* Mutant: the update has no $set operator, so it replaces the document: the
\* members the update lacks are lost.
ApplySetReplace(d, set) ==
    [d EXCEPT !.updated_at = set.updated_at,
              !.title = IF set.title = None THEN "" ELSE set.title[1],
              !.description = IF set.description = None THEN "" ELSE set.description[1],
              !.completed = IF set.completed = None THEN FALSE ELSE set.completed[1],
              !.user_id = "",
              !.created_at = 0]

\* The members, other than updated_at, that a $set document holds.
Supplied(set) ==
    {f \in {"title", "description", "completed"} : set[f] # None}

\* $set applied to a document: members of the update replace the document's.
ApplySet(d, set) ==
    [d EXCEPT !.updated_at = set.updated_at,
              !.title = IF set.title = None THEN @ ELSE set.title[1],
              !.description = IF set.description = None THEN @ ELSE set.description[1],
              !.completed = IF set.completed = None THEN @ ELSE set.completed[1]]

\* ------------------------------------------------------------- handlers
GetTodos(cookie) ==
    /\ resp = NoReq
    /\ CanServe(cookie)
    /\ LET mw == AuthMiddleware(cookie, minted)
           r  == Arrive("GET", cookie, NoParam, NoBody, mw)
       IN /\ minted' = mw.minted
          /\ resp' = IF mw.user_id = None THEN Respond(r, 401, {})
                     ELSE Respond(Called(r), 200, {d \in collection : ListFilter(d, r)})
    /\ UNCHANGED <<collection, nextObjectID, clock, pending, fresh, creator, deleted>>

\* t1, t2: the handler's two readings of time.Now(), not after the insert.
CreateTodo(cookie, body, t1, t2) ==
    /\ resp = NoReq
    /\ CanServe(cookie)
    /\ t1 <= t2 /\ t2 <= clock
    /\ LET mw  == AuthMiddleware(cookie, minted)
           r   == Arrive("POST", cookie, NoParam, body, mw)
           req == BindCreate(body)
       IN /\ minted' = mw.minted
          /\ IF mw.user_id = None \/ req.err
             THEN /\ resp' = Respond(r, IF mw.user_id = None THEN 401 ELSE 400, {})
                  /\ UNCHANGED <<collection, nextObjectID, fresh, creator>>
             ELSE \* InsertOne: the driver generates the _id the document lacks
                  LET todo == [NewTodo(mw.user_id[1], req, t1, t2) EXCEPT
                                   !.id = ObjectIDs[nextObjectID]]
                  IN /\ nextObjectID <= Len(ObjectIDs)
                     /\ collection' = collection \cup {todo}
                     /\ nextObjectID' = nextObjectID + 1
                     /\ resp' = Respond(Called(r), 201, {todo})
                     /\ fresh' = [i \in DOMAIN fresh \cup {todo.id} |->
                                     IF i = todo.id THEN todo ELSE fresh[i]]
                     /\ creator' = [i \in DOMAIN creator \cup {todo.id} |->
                                       IF i = todo.id THEN r.user_id ELSE creator[i]]
    /\ UNCHANGED <<clock, pending, deleted>>

\* The handler up to and including UpdateOne; now: its reading of time.Now().
UpdateTodo(s, cookie, param, body, now) ==
    /\ resp = NoReq
    /\ pending[s] = NoReq
    /\ CanServe(cookie)
    /\ now <= clock
    /\ LET mw  == AuthMiddleware(cookie, minted)
           oid == ObjectIDFromHex(param)
           req == BindUpdate(body)
           r   == [Arrive("PUT", cookie, param, body, mw) EXCEPT
                       !.objectID = oid.id, !.now = now, !.set = Some(UpdateDoc(req, now))]
           matched == {d \in collection : UpdateFilter(d, r)}
       IN /\ minted' = mw.minted
          /\ IF mw.user_id = None \/ oid.err \/ req.err
             THEN /\ resp' = Respond(r, IF mw.user_id = None THEN 401 ELSE 400, {})
                  /\ UNCHANGED <<collection, pending, fresh>>
             ELSE IF matched = {}
             THEN /\ resp' = Respond(Called(r), 404, {})
                  /\ UNCHANGED <<collection, pending, fresh>>
             ELSE \E d \in matched :
                  /\ collection' = (collection \ {d}) \cup {ApplySet(d, r.set[1])}
                  /\ fresh' = Without(fresh, d.id)
                  /\ pending' = [t \in Slots |->
                        IF t = s THEN Called(r)
                        ELSE IF pending[t] # NoReq /\ pending[t].objectID = d.id
                        THEN [pending[t] EXCEPT !.over = @ \cup Supplied(r.set[1])]
                        ELSE pending[t]]
                  /\ resp' = NoReq
    /\ UNCHANGED <<nextObjectID, clock, creator, deleted>>

\* The rest of UpdateTodo: FindOne(ctx, filter).Decode, where no document is
\* an error.
FindUpdated(s) ==
    /\ resp = NoReq
    /\ pending[s] # NoReq
    /\ LET r == Called(pending[s])
           matched == {d \in collection : UpdateFilter(d, r)}
       IN IF matched = {}
          THEN resp' = Respond(r, 500, {})
          ELSE \E d \in matched : resp' = Respond(r, 200, {d})
    /\ pending' = [pending EXCEPT ![s] = NoReq]
    /\ UNCHANGED <<collection, nextObjectID, minted, clock, fresh, creator, deleted>>

DeleteTodo(cookie, param) ==
    /\ resp = NoReq
    /\ CanServe(cookie)
    /\ LET mw  == AuthMiddleware(cookie, minted)
           oid == ObjectIDFromHex(param)
           r   == [Arrive("DELETE", cookie, param, NoBody, mw) EXCEPT !.objectID = oid.id]
           matched == {d \in collection : DeleteFilter(d, r)}
       IN /\ minted' = mw.minted
          /\ IF mw.user_id = None \/ oid.err
             THEN /\ resp' = Respond(r, IF mw.user_id = None THEN 401 ELSE 400, {})
                  /\ UNCHANGED <<collection, fresh, deleted>>
             ELSE IF matched = {}
             THEN /\ resp' = Respond(Called(r), 404, {})
                  /\ UNCHANGED <<collection, fresh, deleted>>
             ELSE \E d \in matched :
                  /\ collection' = collection \ {d}
                  /\ fresh' = Without(fresh, d.id)
                  /\ deleted' = deleted \cup {d.id}
                  /\ resp' = Respond(Called(r), 200, {})
    /\ UNCHANGED <<nextObjectID, clock, pending, creator>>

\* The response is written to the client and the request's goroutine ends.
Reply ==
    /\ resp # NoReq
    /\ resp' = NoReq
    /\ UNCHANGED <<collection, nextObjectID, minted, clock, pending, fresh, creator, deleted>>

\* Time passes.
Tick ==
    /\ resp = NoReq
    /\ clock < MaxClock
    /\ clock' = clock + 1
    /\ UNCHANGED <<collection, nextObjectID, minted, pending, resp, fresh, creator, deleted>>

Times == 0..MaxClock

NoPending == \A s \in Slots : pending[s] = NoReq

\* No request is being served.
Idle == resp = NoReq /\ NoPending

\* Every slot is taken.
NoSlot == \A s \in Slots : pending[s] # NoReq

\* The slot an arriving UpdateTodo takes: the slots are alike, so one that is
\* free stands for every free one.
FreeSlot == CHOOSE s \in Slots : pending[s] = NoReq

\* Requests served one after another: a handler has read the clock when its
\* persistence call is made, and nothing runs between UpdateOne and FindOne.
Next ==
    \/ Idle /\ \E cookie \in CookieInputs : GetTodos(cookie)
    \/ Idle /\ \E cookie \in CookieInputs, body \in CreateBodies, t1 \in Times :
          CreateTodo(cookie, body, t1, clock)
    \/ Idle /\ \E cookie \in CookieInputs, param \in PathParams, body \in UpdateBodies :
          UpdateTodo(FreeSlot, cookie, param, body, clock)
    \/ \E s \in Slots : FindUpdated(s)
    \/ Idle /\ \E cookie \in CookieInputs, param \in PathParams : DeleteTodo(cookie, param)
    \/ Reply
    \/ Idle /\ Tick

Spec == Init /\ [][Next]_vars

\* The ObjectIDs generated in a run of ConcSpec or of FailSpec.
ConcObjectIDs == {ObjectIDs[1]}

\* Requests interleaved: other requests run between the UpdateOne and the
\* FindOne of an UpdateTodo.  The requests of a run arrive within one reading
\* of the clock.
ConcNext ==
    \/ resp = NoReq /\ \E cookie \in CookieInputs : GetTodos(cookie)
    \/ resp = NoReq /\ nextObjectID <= Len(ObjectIDs)
          /\ ObjectIDs[nextObjectID] \in ConcObjectIDs
          /\ \E cookie \in CookieInputs, body \in CreateBodies :
                CreateTodo(cookie, body, clock, clock)
    \/ resp = NoReq /\ ~NoSlot
          /\ \E cookie \in CookieInputs, param \in PathParams, body \in UpdateBodies :
                UpdateTodo(FreeSlot, cookie, param, body, clock)
    \/ \E s \in Slots : FindUpdated(s)
    \/ resp = NoReq /\ \E cookie \in CookieInputs, param \in PathParams : DeleteTodo(cookie, param)
    \/ Reply

ConcSpec == Init /\ [][ConcNext]_vars

\* --------------------------------------------------- persistence failure
\* A persistence call returns an error (the connection is lost, or the
\* 10-second context expires).  how = "before": the store has not applied the
\* operation; how = "after": the store has applied it and the result did not
\* reach the handler in time.  A read has no effect to apply.
Hows == {"before", "after"}

\* Mutant: the handler issues the failed call once more before it answers.
FailedRetried(r, how) == Respond([Called(Called(r)) EXCEPT !.failed = how], 500, {})

\* if err != nil { c.JSON(http.StatusInternalServerError, ...); return }
Failed(r, how) == Respond([Called(r) EXCEPT !.failed = how], 500, {})

\* collection.Find, or cursor.All, returns an error.
GetTodosFail(cookie) ==
    /\ resp = NoReq
    /\ CanServe(cookie)
    /\ LET mw == AuthMiddleware(cookie, minted)
           r  == Arrive("GET", cookie, NoParam, NoBody, mw)
       IN /\ mw.user_id # None
          /\ minted' = mw.minted
          /\ resp' = Failed(r, "before")
    /\ UNCHANGED <<collection, nextObjectID, clock, pending, fresh, creator, deleted>>

\* collection.InsertOne returns an error.
CreateTodoFail(cookie, body, t1, t2, how) ==
    /\ resp = NoReq
    /\ CanServe(cookie)
    /\ t1 <= t2 /\ t2 <= clock
    /\ LET mw  == AuthMiddleware(cookie, minted)
           r   == Arrive("POST", cookie, NoParam, body, mw)
           req == BindCreate(body)
       IN /\ mw.user_id # None /\ ~req.err
          /\ minted' = mw.minted
          /\ resp' = Failed(r, how)
          /\ IF how = "before"
             THEN UNCHANGED <<collection, nextObjectID, fresh, creator>>
             ELSE LET todo == [NewTodo(mw.user_id[1], req, t1, t2) EXCEPT
                                   !.id = ObjectIDs[nextObjectID]]
                  IN /\ nextObjectID <= Len(ObjectIDs)
                     /\ collection' = collection \cup {todo}
                     /\ nextObjectID' = nextObjectID + 1
                     /\ fresh' = [i \in DOMAIN fresh \cup {todo.id} |->
                                     IF i = todo.id THEN todo ELSE fresh[i]]
                     /\ creator' = [i \in DOMAIN creator \cup {todo.id} |->
                                       IF i = todo.id THEN r.user_id ELSE creator[i]]
    /\ UNCHANGED <<clock, pending, deleted>>

\* collection.UpdateOne returns an error: the handler answers and does not
\* go on to FindOne.
UpdateTodoFail(cookie, param, body, now, how) ==
    /\ resp = NoReq
    /\ CanServe(cookie)
    /\ now <= clock
    /\ LET mw  == AuthMiddleware(cookie, minted)
           oid == ObjectIDFromHex(param)
           req == BindUpdate(body)
           r   == [Arrive("PUT", cookie, param, body, mw) EXCEPT
                       !.objectID = oid.id, !.now = now, !.set = Some(UpdateDoc(req, now))]
           matched == {d \in collection : UpdateFilter(d, r)}
       IN /\ mw.user_id # None /\ ~oid.err /\ ~req.err
          /\ minted' = mw.minted
          /\ resp' = Failed(r, how)
          /\ IF how = "before" \/ matched = {}
             THEN UNCHANGED <<collection, pending, fresh>>
             ELSE \E d \in matched :
                  /\ collection' = (collection \ {d}) \cup {ApplySet(d, r.set[1])}
                  /\ fresh' = Without(fresh, d.id)
                  /\ pending' = [t \in Slots |->
                        IF pending[t] # NoReq /\ pending[t].objectID = d.id
                        THEN [pending[t] EXCEPT !.over = @ \cup Supplied(r.set[1])]
                        ELSE pending[t]]
    /\ UNCHANGED <<nextObjectID, clock, creator, deleted>>

\* collection.FindOne(...).Decode returns an error other than no document.
FindUpdatedFail(s) ==
    /\ resp = NoReq
    /\ pending[s] # NoReq
    /\ resp' = Failed(pending[s], "before")
    /\ pending' = [pending EXCEPT ![s] = NoReq]
    /\ UNCHANGED <<collection, nextObjectID, minted, clock, fresh, creator, deleted>>

\* collection.DeleteOne returns an error.
DeleteTodoFail(cookie, param, how) ==
    /\ resp = NoReq
    /\ CanServe(cookie)
    /\ LET mw  == AuthMiddleware(cookie, minted)
           oid == ObjectIDFromHex(param)
           r   == [Arrive("DELETE", cookie, param, NoBody, mw) EXCEPT !.objectID = oid.id]
           matched == {d \in collection : DeleteFilter(d, r)}
       IN /\ mw.user_id # None /\ ~oid.err
          /\ minted' = mw.minted
          /\ resp' = Failed(r, how)
          /\ IF how = "before" \/ matched = {}
             THEN UNCHANGED <<collection, fresh, deleted>>
             ELSE \E d \in matched :
                  /\ collection' = collection \ {d}
                  /\ fresh' = Without(fresh, d.id)
                  /\ deleted' = deleted \cup {d.id}
    /\ UNCHANGED <<nextObjectID, clock, pending, creator>>

\* Requests served one after another, as in Next, on the todos of
\* ConcObjectIDs; every persistence call may fail.
FailNext ==
    \/ Idle /\ \E cookie \in CookieInputs : GetTodos(cookie)
    \/ Idle /\ \E cookie \in CookieInputs : GetTodosFail(cookie)
    \/ Idle /\ nextObjectID <= Len(ObjectIDs) /\ ObjectIDs[nextObjectID] \in ConcObjectIDs
          /\ \E cookie \in CookieInputs, body \in CreateBodies, t1 \in Times :
                CreateTodo(cookie, body, t1, clock)
    \/ Idle /\ nextObjectID <= Len(ObjectIDs) /\ ObjectIDs[nextObjectID] \in ConcObjectIDs
          /\ \E cookie \in CookieInputs, body \in CreateBodies, t1 \in Times, how \in Hows :
                CreateTodoFail(cookie, body, t1, clock, how)
    \/ Idle /\ \E cookie \in CookieInputs, param \in PathParams, body \in UpdateBodies :
          UpdateTodo(FreeSlot, cookie, param, body, clock)
    \/ Idle /\ \E cookie \in CookieInputs, param \in PathParams, body \in UpdateBodies,
                  how \in Hows : UpdateTodoFail(cookie, param, body, clock, how)
    \/ \E s \in Slots : FindUpdated(s)
    \/ \E s \in Slots : FindUpdatedFail(s)
    \/ Idle /\ \E cookie \in CookieInputs, param \in PathParams : DeleteTodo(cookie, param)
    \/ Idle /\ \E cookie \in CookieInputs, param \in PathParams, how \in Hows :
          DeleteTodoFail(cookie, param, how)
    \/ Reply
    \/ Idle /\ Tick

FailSpec == Init /\ [][FailNext]_vars

\* ------------------------------------------------------------ properties
\* A step that answers a request (the response is in resp').
Answered == resp = NoReq /\ resp' # NoReq

\* The answer is that of FindUpdated: the request was between its two calls.
FromPending == \E s \in Slots : pending[s] # NoReq /\ pending'[s] = NoReq

\* The requests whose handler ran from the middleware on in this step: the one
\* answered, or the UpdateTodo that has matched and waits for its FindOne.
Arrived ==
    (IF Answered /\ ~FromPending THEN {resp'} ELSE {})
    \cup {pending'[s] : s \in {x \in Slots : pending[x] = NoReq /\ pending'[x] # NoReq}}

\* The documents with this _id.
Stored(c, id) == {d \in c : d.id = id}

\* C1: a list answered under identity B holds only todos whose owner is B,
\* and none that was created under another identity.
C1_ListOnlyOwn ==
    (resp.method = "GET" /\ resp.status = 200) =>
        \A t \in resp.todos : t.user_id = resp.user_id /\ creator[t.id] = resp.user_id

\* B lists and gets its own todo while the collection holds another identity's.
C1_Witness ==
    /\ resp.method = "GET" /\ resp.status = 200
    /\ resp.todos # {}
    /\ \E d \in collection : d.user_id # resp.user_id

\* The request r names, with a well-formed identifier, a stored todo that
\* another identity owns.
Foreign(r, c) ==
    /\ r.method \in {"PUT", "DELETE"}
    /\ \E d \in c : r.param = [hex |-> TRUE, id |-> d.id] /\ d.user_id # r.user_id

\* C2 as claimed: an update or delete under B of an existing todo owned by
\* A # B, with a well-formed identifier, is always answered 404.
C2_Original ==
    [][ \A r \in Arrived : Foreign(r, collection) => (r = resp' /\ r.status = 404) ]_vars

\* C2 as amended: such a request is answered in the same step, without a match:
\* 400 when it is an update whose body does not deserialize, 404 otherwise;
\* and every todo a 200 update returns is the caller's.
C2_ForeignNotFound ==
    [][ /\ \A r \in Arrived : Foreign(r, collection) =>
              /\ r = resp'
              /\ r.status = IF r.method = "PUT" /\ ~r.body.valid THEN 400 ELSE 404
        /\ (Answered /\ resp'.method = "PUT" /\ resp'.status = 200)
              => \A t \in resp'.todos : t.user_id = resp'.user_id
      ]_vars

\* An update under B names A's todo, which is stored, and is answered 404.
C2_Witness ==
    /\ resp.method = "PUT" /\ resp.status = 404
    /\ resp.body.valid /\ resp.body.title # None
    /\ \E d \in collection : d.id = resp.param.id /\ d.user_id # resp.user_id

\* C3: a step taken for a request under B leaves the todos of every other
\* owner as they were: none changed, none removed, none added.
C3_ForeignUntouched ==
    [][ /\ \A r \in Arrived :
              {d \in collection : d.user_id # r.user_id}
                  = {d \in collection' : d.user_id # r.user_id}
        /\ (Arrived = {}) => collection' = collection
      ]_vars

\* B has deleted its own todo and A's todo is still stored.
C3_Witness ==
    /\ resp.method = "DELETE" /\ resp.status = 200
    /\ resp.param.id \in deleted
    /\ \E d \in collection : d.user_id # resp.user_id

\* C4: a create answered 201 returns one todo, which is stored, is owned by
\* the identity resolved for the request and is not completed.
C4_CreateOwnerNotCompleted ==
    (resp.method = "POST" /\ resp.status = 201) =>
        /\ Cardinality(resp.todos) = 1
        /\ \A t \in resp.todos :
              /\ t \in collection
              /\ t.user_id = resp.user_id
              /\ t.completed = FALSE

\* A create whose body says completed and names another owner is answered 201.
C4_Witness ==
    /\ resp.method = "POST" /\ resp.status = 201
    /\ resp.body.completed = Some(TRUE)
    /\ resp.body.user_id # None /\ resp.body.user_id # Some(resp.user_id)

\* C5: a matched update gives each of title, description and completed the
\* value its body supplies and leaves it alone when the body has none; owner,
\* identifier and created timestamp stay; no other document changes.
C5_PartialUpdate ==
    [][ \A s \in Slots : (pending[s] = NoReq /\ pending'[s] # NoReq) =>
          LET r == pending'[s] IN
          /\ Cardinality(Stored(collection, r.objectID)) = 1
          /\ Cardinality(Stored(collection', r.objectID)) = 1
          /\ collection' \ Stored(collection', r.objectID)
                = collection \ Stored(collection, r.objectID)
          /\ \A d \in Stored(collection, r.objectID), e \in Stored(collection', r.objectID) :
                /\ e.user_id = d.user_id
                /\ e.created_at = d.created_at
                /\ e.title = IF r.body.title = None THEN d.title ELSE r.body.title[1]
                /\ e.description = IF r.body.description = None THEN d.description
                                   ELSE r.body.description[1]
                /\ e.completed = IF r.body.completed = None THEN d.completed
                                 ELSE r.body.completed[1]
      ]_vars

\* An update supplying only completed is answered 200 with the title and the
\* description the todo was created with.
C5_Witness ==
    /\ resp.method = "PUT" /\ resp.status = 200
    /\ resp.body.title = None /\ resp.body.description = None
    /\ resp.body.completed = Some(TRUE)
    /\ \E t \in resp.todos : t.title = "a" /\ t.description = "x" /\ t.completed

\* The UpdateTodo requests whose UpdateOne matches in this step.
Matching == {pending'[s] : s \in {x \in Slots : pending[x] = NoReq /\ pending'[x] # NoReq}}

\* C6 as claimed: a matched update leaves the todo with an updated timestamp
\* strictly greater than the one it had.
C6_Original ==
    [][ \A r \in Matching :
          \A d \in Stored(collection, r.objectID), e \in Stored(collection', r.objectID) :
              e.updated_at > d.updated_at ]_vars

\* C6 as amended: a matched update, whatever its body, sets the updated
\* timestamp to the handler's reading of the clock; with requests served one
\* after another that is never less than the timestamp the todo had.
C6_UpdatedAtRefreshed ==
    [][ \A r \in Matching :
          \A d \in Stored(collection, r.objectID), e \in Stored(collection', r.objectID) :
              /\ e.updated_at = r.now
              /\ r.now = clock
              /\ e.updated_at >= d.updated_at ]_vars

\* An update with an empty JSON object is answered 200 and the todo's
\* updated timestamp has moved on from its created timestamp.
C6_Witness ==
    /\ resp.method = "PUT" /\ resp.status = 200
    /\ resp.body.valid
    /\ resp.body.title = None /\ resp.body.description = None /\ resp.body.completed = None
    /\ \E t \in resp.todos : t.updated_at > t.created_at

\* C7: a todo that no update or delete has matched since its create is listed
\* exactly once under its creator, with the title, description, completed
\* flag and owner the create returned; and what a create returns has the
\* title and description of its body and the identity of its request.
C7_RoundTrip ==
    /\ (resp.method = "GET" /\ resp.status = 200) =>
          \A id \in DOMAIN fresh : fresh[id].user_id = resp.user_id =>
              /\ Cardinality(Stored(resp.todos, id)) = 1
              /\ \A t \in Stored(resp.todos, id) :
                    /\ t.title = fresh[id].title
                    /\ t.description = fresh[id].description
                    /\ t.completed = fresh[id].completed
                    /\ t.user_id = fresh[id].user_id
    /\ (resp.method = "POST" /\ resp.status = 201) =>
          \A t \in resp.todos :
              /\ t.id \in DOMAIN fresh /\ fresh[t.id] = t
              /\ t.title = resp.body.title[1]
              /\ t.description = IF resp.body.description = None THEN ""
                                 ELSE resp.body.description[1]
              /\ t.user_id = resp.user_id

\* A list holds a todo as created, description included, next to one that has
\* been updated since.
C7_Witness ==
    /\ resp.method = "GET" /\ resp.status = 200
    /\ \E t \in resp.todos : t.id \in DOMAIN fresh /\ t.description = "x"
    /\ \E t \in resp.todos : t.id \notin DOMAIN fresh

\* The body of a create that must be rejected.
BadCreateBody(b) == ~b.valid \/ b.title = None \/ b.title = Some("")

\* C8: a request answered 400 has made no persistence call and the collection
\* is as before; a create with a malformed body or a missing or empty title,
\* and an update or delete with a malformed identifier, are answered 400.
C8_InvalidInputNoEffect ==
    [][ /\ \A r \in Arrived :
              ( \/ r.method = "POST" /\ BadCreateBody(r.body)
                \/ r.method \in {"PUT", "DELETE"} /\ ~r.param.hex )
              => (r = resp' /\ r.status = 400)
        /\ (Answered /\ resp'.status = 400) =>
              /\ resp'.calls = 0
              /\ collection' = collection
              /\ nextObjectID' = nextObjectID
      ]_vars

\* A create with a description and no title is answered 400 while a todo is
\* stored.
C8_Witness ==
    /\ resp.method = "POST" /\ resp.status = 400
    /\ resp.body.valid /\ resp.body.title = None /\ resp.body.description # None
    /\ collection # {}

\* C9: a delete with a well-formed identifier that matches no todo of the
\* caller is answered 404 and changes nothing; once a delete has removed a
\* todo, its identifier is not stored, every delete naming it is answered 404
\* and no list holds it.
C9_DeleteNotFound ==
    [][ /\ \A d \in collection : d.id \notin deleted
        /\ (Answered /\ resp'.method = "DELETE" /\ resp'.param.hex) =>
              /\ ( (\A d \in Stored(collection, resp'.param.id) : d.user_id # resp'.user_id)
                   => (resp'.status = 404 /\ collection' = collection) )
              /\ (resp'.param.id \in deleted => resp'.status = 404)
        /\ (Answered /\ resp'.method = "GET") =>
              \A t \in resp'.todos : t.id \notin deleted
      ]_vars

\* The identity that deleted a todo deletes it again and is answered 404.
C9_Witness ==
    /\ resp.method = "DELETE" /\ resp.status = 404
    /\ resp.param.id \in deleted
    /\ creator[resp.param.id] = resp.user_id

\* The tokens uuid.New() has generated when n of them have been.
Minted(n) == {UUIDs[i] : i \in 1..n}

\* C10: a request without a cookie, or with an empty one, is handled under a
\* token generated for it, not generated before and not empty, which the
\* response sets as cookie; a request with a non-empty cookie is handled under
\* that value, and no token is generated.  A create stores its todo under the
\* identity so resolved.
C10_CookieIdentity ==
    [][ /\ \A r \in Arrived :
              IF r.cookie = None \/ r.cookie = Some("")
              THEN /\ minted' = minted + 1
                   /\ r.user_id \in Minted(minted') \ Minted(minted)
                   /\ r.user_id # ""
                   /\ r.setCookie = Some(r.user_id)
              ELSE /\ minted' = minted
                   /\ r.user_id = r.cookie[1]
                   /\ r.setCookie = None
        /\ (Arrived = {}) => minted' = minted
        /\ (Answered /\ resp'.method = "POST" /\ resp'.status = 201) =>
              \A t \in resp'.todos : t.user_id = resp'.user_id
      ]_vars

\* A list presenting the token an earlier response set is answered with the
\* todo created under that token, and sets no cookie.
C10_Witness ==
    /\ resp.method = "GET" /\ resp.status = 200
    /\ resp.cookie = Some(UUIDs[2]) /\ resp.setCookie = None
    /\ \E t \in resp.todos : t.user_id = UUIDs[2]

\* C11: every response sets the identity cookie again, the response to a
\* request that presented a non-empty identity cookie included.  (setCookie
\* is the Set-Cookie header the middleware writes, with its 24-hour max-age.)
C11_CookieRenewed == (resp # NoReq) => resp.setCookie # None

\* C12: every stored todo has a non-empty title, whatever creates and updates
\* have run (an update whose body sets title to "" included).
C12_TitleNonEmpty == \A d \in collection : d.title # ""

\* C13: from its creation to its deletion a todo keeps its owner, its
\* identifier and its created timestamp; a stored identifier names one todo,
\* whose owner is the identity that created it; and a todo that enters the
\* collection has an identifier that no todo has had before.
C13_IdentityImmutable ==
    [][ /\ \A d \in collection, e \in collection' :
              e.id = d.id => (e.user_id = d.user_id /\ e.created_at = d.created_at)
        /\ \A d \in collection' : \A e \in collection' : d.id = e.id => d = e
        /\ \A e \in collection' :
              /\ e.id \in DOMAIN creator' /\ creator'[e.id] = e.user_id
              /\ Stored(collection, e.id) = {} => e.id \notin DOMAIN creator
        /\ \A id \in DOMAIN creator : id \in DOMAIN creator' /\ creator'[id] = creator[id]
      ]_vars

\* After one todo was deleted, another, created later than time 0, has been
\* updated and is stored under the identity that created it.
C13_Witness ==
    /\ deleted # {}
    /\ \E d \in collection :
          /\ d.id \notin DOMAIN fresh
          /\ d.created_at > 0
          /\ d.completed
          /\ creator[d.id] = d.user_id

\* C14: every request reaches its handler with a non-empty identity, and no
\* request is answered 401, whatever cookie it carries.
C14_NeverUnauthenticated ==
    /\ resp.status # 401
    /\ (resp # NoReq) => resp.user_id # ""
    /\ \A s \in Slots : pending[s] # NoReq => pending[s].user_id # ""

\* A delete that presents an empty cookie is handled, and answered 404, and
\* so was an update that presented a token: its todo is stored updated.
C14_Witness ==
    /\ resp.method = "DELETE" /\ resp.cookie = Some("") /\ resp.status = 404
    /\ \E d \in collection : d.id \notin DOMAIN fresh

\* C15: with requests interleaved and no persistence failure, an update is
\* answered 200 with the todo exactly when its UpdateOne matched, also when
\* a delete of the todo runs between its UpdateOne and its FindOne.
C15_MatchedAnswered200 ==
    [][ /\ FromPending => (resp'.status = 200 /\ Cardinality(resp'.todos) = 1)
        /\ (Answered /\ resp'.method = "PUT" /\ resp'.status = 200) => FromPending
      ]_vars


\* The todos of the collection c that the identity of request r does not own.
NotOwn(r, c) == {d \in c : d.user_id # r.user_id}

\* C16 as claimed: a request whose persistence call fails is answered 500,
\* the failed call having been issued once, and a failed insert, update or
\* delete leaves the collection as it was before the request.
C16_Original ==
    [][ (Answered /\ resp'.failed # "no") =>
            /\ resp'.status = 500
            /\ resp'.calls = IF FromPending THEN 2 ELSE 1
            /\ (resp'.method \in {"POST", "PUT", "DELETE"} /\ ~FromPending)
                  => collection' = collection
      ]_vars

\* C16 as amended: a request whose persistence call fails is answered 500
\* with no todo, the failed call having been issued once and no call after
\* it; a failed insert, update or delete that the store had not applied
\* leaves the collection as it was, one that the store had applied leaves
\* the todos of the other identities as they were, and a failed re-read
\* leaves the collection as the request's UpdateOne has made it.
C16_FailureAnswered500 ==
    [][ (Answered /\ resp'.failed # "no") =>
            /\ resp'.status = 500 /\ resp'.todos = {}
            /\ resp'.calls = IF FromPending THEN 2 ELSE 1
            /\ \A s \in Slots : pending'[s] = NoReq \/ pending'[s] = pending[s]
            /\ resp'.failed = "before" =>
                  (collection' = collection /\ nextObjectID' = nextObjectID)
            /\ NotOwn(resp', collection') = NotOwn(resp', collection)
            /\ FromPending =>
                  \E d \in collection : d.id = resp'.objectID /\ d.id \notin DOMAIN fresh
      ]_vars

\* An update whose UpdateOne the store applied before the call failed is
\* answered 500 and the todo is stored with the values of its body.
C16_Witness ==
    /\ resp.method = "PUT" /\ resp.status = 500 /\ resp.failed = "after"
    /\ resp.body.title = Some("") /\ resp.body.completed = Some(TRUE)
    /\ \E d \in collection : d.id = resp.objectID /\ d.title = "" /\ d.completed

\* The values the body of update r supplies are those of todo t.
Carries(r, t, fields) ==
    /\ ("title" \in fields /\ r.body.title # None) => t.title = r.body.title[1]
    /\ ("description" \in fields /\ r.body.description # None)
          => t.description = r.body.description[1]
    /\ ("completed" \in fields /\ r.body.completed # None)
          => t.completed = r.body.completed[1]

AllFields == {"title", "description", "completed"}

\* C17 as claimed: the todo a 200 update returns has, for every member its
\* body supplies, the value supplied, also when another update of the todo
\* ran between its UpdateOne and its FindOne.
C17_Original ==
    [][ (FromPending /\ resp'.status = 200) =>
            \A t \in resp'.todos : Carries(resp', t, AllFields) ]_vars

\* C17 as amended: the todo a 200 update returns is the caller's document of
\* that identifier as stored at the FindOne; it has the value supplied for
\* every member the body supplies that no other update of the todo has
\* written since the request's UpdateOne.
C17_ReturnsStored ==
    [][ (FromPending /\ resp'.status = 200) =>
            /\ resp'.todos = Stored(collection, resp'.objectID)
            /\ \A t \in resp'.todos :
                  /\ t.user_id = resp'.user_id
                  /\ Carries(resp', t, AllFields \ resp'.over)
      ]_vars

\* An update that supplied title and completed is answered 200 with both,
\* and with the description another update wrote in between.
C17_Witness ==
    /\ resp.method = "PUT" /\ resp.status = 200
    /\ resp.body.title = Some("a") /\ resp.body.completed = Some(TRUE)
    /\ resp.body.description = None
    /\ resp.over = {"description"}
    /\ \E t \in resp.todos : t.title = "a" /\ t.completed /\ t.description = "x"
====
